---- MODULE Spec2Model ----
(***************************************************************************)
(* The two bridge scripts of whisperapi:                                   *)
(*   adapter "A"  scripts/faster_whisper_bridge.py                         *)
(*   adapter "B"  scripts/insanely_fast_whisper_bridge.py                  *)
(* One behaviour is one run of one script: module import, argument         *)
(* parsing, the audio-path check, transcribe_audio step by step, and the   *)
(* final print.                                                            *)
(*                                                                         *)
(* Conventions.  Times are integers in hundredths of a second (the         *)
(* pipeline reports timestamps to two decimals), probabilities are         *)
(* integers in hundredths.  A string of the program whose characters       *)
(* matter (segment and chunk texts) is a sequence of one-character         *)
(* strings; Python's None is the value None below where a number is        *)
(* expected and NoneStr where a string is expected.                        *)
(***************************************************************************)
EXTENDS Integers, Sequences, FiniteSets, TLC

VARIABLES
    adapter,      \* "A" or "B": which script runs
    pc,           \* position of the run
    argv,         \* the command line
    imported,     \* the backend's modules were imported
    fsExists,     \* os.path.exists(<the --audio path>)
    detectLang,   \* the language the backend detects in the audio file
    args,         \* argparse namespace, once parsed
    stdout,       \* what was written to standard output, in order
    stderr,       \* what was written to standard error, in order
    exitCode,     \* process exit status, Running while the process lives
    entered,      \* transcribe_audio was entered
    loads,        \* number of model objects constructed
    calls,        \* number of transcription / inference calls made
    segments,     \* A: the segments model.transcribe yields
    info,         \* A: the TranscriptionInfo of model.transcribe
    audio_len,    \* B: len(audio_data)
    pipeOut,      \* B: what pipe(...) returned
    raised,       \* the exception raised inside transcribe_audio's try, if any
    result        \* the dict transcribe_audio returned

vars == <<adapter, pc, argv, imported, fsExists, detectLang, args, stdout, stderr,
          exitCode, entered, loads, calls, segments, info, audio_len, pipeOut, raised,
          result>>

----------------------------------------------------------------------------
(* Bounds of the model *)

\* largest timestamp, in hundredths of a second, of a single chunk
MaxTime == 3
\* longest chunk text, in characters
MaxTextLen == 5
\* longest chunk list
MaxChunks == 2
\* largest timestamp of a chunk in a chunk list
MaxListTime == 1
\* most words of a chunk in a chunk list
MaxListWords == 1
\* longest segment list
MaxSegs == 2
\* longest segment text, in characters
MaxSegTextLen == 1
\* most words in a segment
MaxSegWords == 1

----------------------------------------------------------------------------
(* Values *)

\* Python's None where a number is expected, and where a string is expected
None == 0 - 1
NoneStr == "<None>"
\* exit status of a process that has not ended
Running == 0 - 1

\* "probability": 0.95 and "language_probability": 0.95, in hundredths
PlaceholderProb == 95

\* sr=16000 of librosa.load
SampleRate == 16000

\* indent=2 of the final json.dumps
Indent == 2

\* the characters of texts: whitespace and a letter
Chars == {" ", "a"}

IsSpace(c) == c = " "

RECURSIVE SeqsUpTo(_, _)
SeqsUpTo(S, n) ==
    IF n = 0 THEN {<<>>}
    ELSE LET shorter == SeqsUpTo(S, n - 1)
         IN  shorter \cup {Append(s, x) : s \in {t \in shorter : Len(t) = n - 1}, x \in S}

----------------------------------------------------------------------------
(* str.strip() and str.split() *)

RECURSIVE LStrip(_)
LStrip(s) ==
    IF s = <<>> THEN <<>>
    ELSE IF IsSpace(Head(s)) THEN LStrip(Tail(s)) ELSE s

RECURSIVE RStrip(_)
RStrip(s) ==
    IF s = <<>> THEN <<>>
    ELSE IF IsSpace(s[Len(s)]) THEN RStrip(SubSeq(s, 1, Len(s) - 1)) ELSE s

Strip(s) == RStrip(LStrip(s))

\* split on runs of whitespace: cur is the word being read
RECURSIVE SplitFrom(_, _)
SplitFrom(s, cur) ==
    IF s = <<>> THEN (IF cur = <<>> THEN <<>> ELSE <<cur>>)
    ELSE IF IsSpace(Head(s))
         THEN (IF cur = <<>> THEN SplitFrom(Tail(s), <<>>)
                             ELSE <<cur>> \o SplitFrom(Tail(s), <<>>))
         ELSE SplitFrom(Tail(s), Append(cur, Head(s)))

Split(s) == SplitFrom(s, <<>>)

----------------------------------------------------------------------------
(* Backend B: word timestamps from chunks (transcribe_audio, lines 98-118) *)

\* A chunk of the pipeline: tsKind says what chunk["timestamp"] is:
\*   "absent" no such key, "null" None, "empty" an empty tuple,
\*   "single" a 1-tuple, "pair" the tuple (start, end), either possibly None.
Chunk(kind, s, e, t) == [tsKind |-> kind, start |-> s, end |-> e, text |-> t]

\* "timestamp" in chunk and chunk["timestamp"]
HasTimestamp(chunk) == chunk.tsKind # "absent" /\ chunk.tsKind \in {"single", "pair"}

\* start_time, end_time = chunk["timestamp"] raises ValueError on a 1-tuple
UnpackFails(chunk) == HasTimestamp(chunk) /\ chunk.tsKind = "single"

\* round(x, 2) of the float x = num / den hundredths, num >= 0, den > 0: the
\* outcomes a build can produce.  Away from a tie the float error never changes
\* the result; on an exact half the computed float lies a rounding error above or
\* below the tie and round() goes either way.
Round2(num, den) ==
    LET q == num \div den
        r == num % den
    IN  IF 2 * r < den THEN {q}
        ELSE IF 2 * r > den THEN {q + 1}
        ELSE {q, q + 1}

\* duration = end_time - start_time if end_time else 0
ChunkDuration(chunk) == IF chunk.end # 0 THEN chunk.end - chunk.start ELSE 0

\* WordEntries counting the words from 1 instead of 0
WordEntriesFromOne(chunk, chunk_words, i) ==
    LET k == Len(chunk_words)
        d == ChunkDuration(chunk)
    IN  { [word |-> chunk_words[i + 1], start |-> ws, end |-> we,
           probability |-> PlaceholderProb] :
            ws \in Round2(chunk.start * k + (i + 1) * d, k),
            we \in Round2(chunk.start * k + (i + 2) * d, k) }

\* The entries the i-th word (i from 0) of a chunk with k words can get:
\* word_start = start_time + i * word_duration, word_end = word_start + word_duration
WordEntries(chunk, chunk_words, i) ==
    LET k == Len(chunk_words)
        d == ChunkDuration(chunk)
    IN  { [word |-> chunk_words[i + 1], start |-> ws, end |-> we,
           probability |-> PlaceholderProb] :
            ws \in Round2(chunk.start * k + i * d, k),
            we \in Round2(chunk.start * k + (i + 1) * d, k) }

RECURSIVE EntriesFrom(_, _, _)
EntriesFrom(chunk, chunk_words, i) ==
    IF i >= Len(chunk_words) THEN {<<>>}
    ELSE { <<e>> \o rest : e \in WordEntries(chunk, chunk_words, i),
                           rest \in EntriesFrom(chunk, chunk_words, i + 1) }

\* ChunkWords that puts 0 in place of a missing start or end
ChunkWordsZeroFill(chunk) ==
    IF ~HasTimestamp(chunk) THEN {<<>>}
    ELSE LET chunk_words == Split(Strip(chunk.text))
             filled == [chunk EXCEPT !.start = IF @ = None THEN 0 ELSE @,
                                     !.end = IF @ = None THEN 0 ELSE @]
         IN  IF chunk_words # <<>>
             THEN EntriesFrom(filled, chunk_words, 0)
             ELSE {<<>>}

\* What one chunk can append to words (the body of the loop over chunks)
ChunkWords(chunk) ==
    IF ~HasTimestamp(chunk) THEN {<<>>}
    ELSE LET chunk_words == Split(Strip(chunk.text))
         IN  IF chunk_words # <<>> /\ chunk.start # None /\ chunk.end # None
             THEN EntriesFrom(chunk, chunk_words, 0)
             ELSE {<<>>}

\* The loop over chunks: every value words can have after it
RECURSIVE WordsOfChunks(_)
WordsOfChunks(chunks) ==
    IF chunks = <<>> THEN {<<>>}
    ELSE { first \o rest : first \in ChunkWords(Head(chunks)),
                           rest \in WordsOfChunks(Tail(chunks)) }

\* some chunk's timestamp cannot be unpacked: the loop ends in a ValueError
SomeUnpackFails(chunks) == \E i \in 1..Len(chunks) : UnpackFails(chunks[i])

----------------------------------------------------------------------------
(* Backend A: the loop over segments (transcribe_audio, lines 51-64) *)

Segment(t, hw, ws) == [text |-> t, hasWords |-> hw, words |-> ws]

\* hasattr(segment, 'words') and segment.words
SegmentHasWords(segment) == segment.hasWords /\ segment.words # <<>>

\* {"word": word.word, "start": word.start, "end": word.end, "probability": ...}
WordDict(word) ==
    [word |-> word.word, start |-> word.start, end |-> word.end,
     probability |-> word.probability]

RECURSIVE WordDicts(_)
WordDicts(ws) == IF ws = <<>> THEN <<>> ELSE <<WordDict(Head(ws))>> \o WordDicts(Tail(ws))

\* AddSegmentText without the separating space
AddSegmentTextNoSpace(text, segment) == text \o segment.text

\* full_text += segment.text + " "
AddSegmentText(text, segment) == text \o segment.text \o <<" ">>

\* words.append(...) for each word of the segment
AddSegmentWords(ws, segment) ==
    IF SegmentHasWords(segment) THEN ws \o WordDicts(segment.words) ELSE ws

\* the loop: the pair (full_text, words) after all of segs, starting from acc
RECURSIVE SegmentLoop(_, _)
SegmentLoop(segs, acc) ==
    IF segs = <<>> THEN acc
    ELSE SegmentLoop(Tail(segs),
                     [full_text |-> AddSegmentText(acc.full_text, Head(segs)),
                      words |-> AddSegmentWords(acc.words, Head(segs))])

----------------------------------------------------------------------------
(* Exceptions, result dicts and printing *)

Exc(cls, msg) == [cls |-> cls, msg |-> msg]

\* classes deriving from Exception that the backends raise
ExceptionClasses == {"OSError", "MemoryError", "RuntimeError", "ValueError", "AttributeError"}

\* Catches narrowed to "except ValueError"
CatchesValueErrorOnly(exc) == exc.cls = "ValueError"

\* Catches with the try/except lost
CatchesNothing(exc) == FALSE

\* except Exception as e
Catches(exc) == exc.cls \in ExceptionClasses

\* no exception was raised
NoExc == Exc("", <<>>)

\* ErrorResult that keeps a result key beside the error
ErrorResultWithText(exc) == [error |-> exc.msg, text |-> <<>>]

\* return {"error": str(e)}
ErrorResult(exc) == [error |-> exc.msg]

\* result before transcribe_audio has returned
NoResult == [unset |-> TRUE]

\* json.dumps(obj, ensure_ascii=..., indent=...) followed by print: the document
\* written, with the two settings that decide its text
Dumps(obj, ensure_ascii, indent) ==
    [kind |-> "json", doc |-> obj, ensure_ascii |-> ensure_ascii, indent |-> indent]

\* json.dumps(obj): ensure_ascii=True, indent=None
DumpsDefault(obj) == Dumps(obj, TRUE, None)

\* json.dumps(result, ensure_ascii=False, indent=2)
DumpsResult(obj) == Dumps(obj, FALSE, Indent)

\* argparse's own output: the help text (standard output), the usage error
\* (standard error)
HelpText == [kind |-> "help", doc |-> [usage |-> TRUE], ensure_ascii |-> TRUE, indent |-> None]

ImportErrorDoc(ad) ==
    IF ad = "A"
    THEN [error |-> <<"faster-whisper not installed. Run: pip install faster-whisper">>]
    ELSE [error |-> <<"Required dependencies not installed. Run: pip install torch transformers librosa numpy">>]

\* {"error": f"Audio file not found: {args.audio}"}
AudioNotFoundDoc(path) == [error |-> <<"Audio file not found: ", path>>]

----------------------------------------------------------------------------
(* The command line *)

\* "nao.wav" stands for a path with a non-ASCII character in it
AudioPaths == {"a.wav", "nao.wav"}
NonAsciiStrings == {"nao.wav"}
Languages == {"en", "pt"}
TorchDtypes == {"float16", "float32", "bfloat16"}

\* A command line: NoneStr is a flag that is not given.  batch_size "x" is a
\* value int() rejects.
ValidArgv(ad) ==
    { [help |-> FALSE, model |-> "m", audio |-> a, language |-> l, translate |-> t,
       torch_dtype |-> d, batch_size |-> NoneStr] :
        a \in AudioPaths, l \in Languages \cup {NoneStr, "auto"}, t \in BOOLEAN,
        d \in IF ad = "B" THEN {NoneStr, "float16", "bogus"} ELSE {NoneStr} }

BaseArgv ==
    [help |-> FALSE, model |-> "m", audio |-> "a.wav", language |-> NoneStr,
     translate |-> FALSE, torch_dtype |-> NoneStr, batch_size |-> NoneStr]

OtherArgv ==
    { [BaseArgv EXCEPT !.help = TRUE],
      [BaseArgv EXCEPT !.help = TRUE, !.model = NoneStr],
      [BaseArgv EXCEPT !.model = NoneStr],
      [BaseArgv EXCEPT !.audio = NoneStr],
      [BaseArgv EXCEPT !.batch_size = "x"] }

ArgvSet(ad) == ValidArgv(ad) \cup OtherArgv

\* parser.parse_args(): "help" when -h is given, "error" when a required flag is
\* missing, a value is rejected by its type or a flag is not one of the script's,
\* "ok" otherwise
ParseOutcome(ad, av) ==
    IF av.help THEN "help"
    ELSE IF av.model = NoneStr \/ av.audio = NoneStr THEN "error"
    ELSE IF ad = "A" /\ (av.torch_dtype # NoneStr \/ av.batch_size # NoneStr) THEN "error"
    ELSE IF ad = "B" /\ av.batch_size \notin {NoneStr, "24"} THEN "error"
    ELSE "ok"

\* the namespace parse_args returns (the flags the run reads)
Namespace(ad, av) ==
    [audio |-> av.audio, language |-> av.language, translate |-> av.translate,
     torch_dtype |-> IF av.torch_dtype = NoneStr THEN "auto" ELSE av.torch_dtype,
     return_timestamps |-> TRUE]

NoArgs ==
    [audio |-> NoneStr, language |-> NoneStr, translate |-> FALSE,
     torch_dtype |-> "auto", return_timestamps |-> TRUE]

----------------------------------------------------------------------------
(* What the backends hand back *)

\* exceptions the backend raises: model not found, out of memory, corrupt
\* audio, unsupported device
BackendErrors ==
    { Exc("OSError", <<"model not found">>),
      Exc("MemoryError", <<"out of memory">>),
      Exc("RuntimeError", <<"corrupt audio">>),
      Exc("ValueError", <<"unsupported device">>) }

Word(w, s, e, p) == [word |-> w, start |-> s, end |-> e, probability |-> p]

\* runs of the whole script draw the model's output from these samples
SegmentSamples ==
    { <<>>,
      <<Segment(<<" ", "a">>, TRUE, <<Word(<<"a">>, 0, 50, 87)>>)>>,
      <<Segment(<<"a">>, FALSE, <<>>),
        Segment(<<" ", "a", "a">>, TRUE, <<Word(<<"a", "a">>, 120, 180, 42)>>)>> }

LangProbSamples == {0, 57, 100}
DurationSamples == {0, 250}
AudioLenSamples == {0, 40000}

PipeOut(t, hc, cs) == [text |-> t, hasChunks |-> hc, chunks |-> cs]

PipeSamples ==
    { PipeOut(<<>>, FALSE, <<>>),
      PipeOut(<<" ", "a", " ", "a">>, TRUE, <<Chunk("pair", 0, 1, <<" ", "a", " ", "a">>)>>),
      PipeOut(<<"a">>, TRUE, <<Chunk("pair", 0, None, <<"a">>)>>),
      PipeOut(<<"a", " ", "a">>, TRUE,
              <<Chunk("pair", 0, 2, <<"a">>), Chunk("single", 2, None, <<"a">>)>>) }

NoInfo == [language |-> NoneStr, language_probability |-> 0, duration |-> 0]
NoPipeOut == PipeOut(<<>>, FALSE, <<>>)

----------------------------------------------------------------------------
(* The run *)

Init ==
    /\ adapter \in {"A", "B"}
    /\ argv \in ArgvSet(adapter)
    /\ fsExists \in BOOLEAN
    /\ detectLang \in Languages
    /\ pc = "import"
    /\ imported = FALSE
    /\ args = NoArgs
    /\ stdout = <<>>
    /\ stderr = <<>>
    /\ exitCode = Running
    /\ entered = FALSE
    /\ loads = 0
    /\ calls = 0
    /\ segments = <<>>
    /\ info = NoInfo
    /\ audio_len = 0
    /\ pipeOut = NoPipeOut
    /\ raised = NoExc
    /\ result = NoResult

\* sys.exit(code) after print(text)
PrintAndExit(text, code) ==
    /\ stdout' = Append(stdout, text)
    /\ exitCode' = code
    /\ pc' = "exited"

\* the module-level try: the imports succeed
ImportOk ==
    /\ pc = "import"
    /\ imported' = TRUE
    /\ pc' = "parse"
    /\ UNCHANGED <<adapter, argv, fsExists, detectLang, args, stdout, stderr, exitCode,
                   entered, loads, calls, segments, info, audio_len, pipeOut, raised, result>>

\* except ImportError: print(json.dumps({...})); sys.exit(1)
ImportFail ==
    /\ pc = "import"
    /\ PrintAndExit(DumpsDefault(ImportErrorDoc(adapter)), 1)
    /\ UNCHANGED <<adapter, argv, imported, fsExists, detectLang, args, stderr,
                   entered, loads, calls, segments, info, audio_len, pipeOut, raised, result>>

\* args = parser.parse_args()
ParseArgs ==
    /\ pc = "parse"
    /\ LET outcome == ParseOutcome(adapter, argv)
       IN  IF outcome = "ok"
           THEN /\ args' = Namespace(adapter, argv)
                /\ pc' = "check"
                /\ UNCHANGED <<stdout, stderr, exitCode>>
           ELSE IF outcome = "help"
           THEN /\ PrintAndExit(HelpText, 0)
                /\ UNCHANGED <<args, stderr>>
           ELSE /\ stderr' = Append(stderr, "usage")
                /\ exitCode' = 2
                /\ pc' = "exited"
                /\ UNCHANGED <<args, stdout>>
    /\ UNCHANGED <<adapter, argv, imported, fsExists, detectLang,
                   entered, loads, calls, segments, info, audio_len, pipeOut, raised, result>>

\* PathExists with the check lost: every path is taken to exist
PathExistsAlways(path) == TRUE

\* os.path.exists(path), for the --audio path
PathExists(path) == fsExists

\* if not os.path.exists(args.audio): print(...); sys.exit(1)
\* otherwise main goes on to call transcribe_audio
CheckAudio ==
    /\ pc = "check"
    /\ IF ~PathExists(args.audio)
       THEN /\ PrintAndExit(DumpsDefault(AudioNotFoundDoc(args.audio)), 1)
            /\ UNCHANGED entered
       ELSE /\ pc' = IF adapter = "A" THEN "A_load" ELSE "B_device"
            /\ entered' = TRUE
            /\ UNCHANGED <<stdout, exitCode>>
    /\ UNCHANGED <<adapter, argv, imported, fsExists, detectLang, args, stderr,
                   loads, calls, segments, info, audio_len, pipeOut, raised, result>>

\* An exception raised inside the try of transcribe_audio: the handler returns
\* the error dict; an exception the handler does not catch ends the process with
\* a traceback
Raise(exc) ==
    /\ raised' = exc
    /\ IF Catches(exc)
       THEN /\ result' = ErrorResult(exc)
            /\ pc' = "print"
            /\ UNCHANGED <<stdout, stderr, exitCode>>
       ELSE /\ stderr' = Append(stderr, "traceback")
            /\ exitCode' = 1
            /\ pc' = "exited"
            /\ UNCHANGED <<stdout, result>>

BackendSteps == {"A_load", "A_transcribe", "A_shape", "B_load", "B_pipe", "B_audio", "B_run"}

\* the backend raises at the step the run is at (in A_shape: the segment
\* generator raises while the loop draws from it)
BackendRaise ==
    /\ pc \in BackendSteps
    /\ \E exc \in BackendErrors : Raise(exc)
    /\ UNCHANGED <<adapter, argv, imported, fsExists, detectLang, args,
                   entered, loads, calls, segments, info, audio_len, pipeOut>>

\* A: model = WhisperModel(model_path, device=device, compute_type=compute_type)
LoadModelA ==
    /\ pc = "A_load"
    /\ loads' = loads + 1
    /\ pc' = "A_transcribe"
    /\ UNCHANGED <<adapter, argv, imported, fsExists, detectLang, args, stdout, stderr, exitCode,
                   entered, calls, segments, info, audio_len, pipeOut, raised, result>>

\* language=language if language != 'auto' else None
LanguageArgA(a) == IF a.language # "auto" THEN a.language ELSE NoneStr

\* A: segments, info = model.transcribe(...).  The model reports the language
\* it was given, or the one it detects when given None.
TranscribeA ==
    /\ pc = "A_transcribe"
    /\ calls' = calls + 1
    /\ \E segs \in SegmentSamples, p \in LangProbSamples, d \in DurationSamples :
         /\ segments' = segs
         /\ info' = [language |-> IF LanguageArgA(args) # NoneStr
                                  THEN LanguageArgA(args) ELSE detectLang,
                     language_probability |-> p,
                     duration |-> d]
    /\ pc' = "A_shape"
    /\ UNCHANGED <<adapter, argv, imported, fsExists, detectLang, args, stdout, stderr, exitCode,
                   entered, loads, audio_len, pipeOut, raised, result>>

\* A: the dict returned after the loop over segments
ResultA(segs, inf) ==
    LET acc == SegmentLoop(segs, [full_text |-> <<>>, words |-> <<>>])
    IN  [text |-> Strip(acc.full_text),
         language |-> inf.language,
         language_probability |-> inf.language_probability,
         duration |-> inf.duration,
         words |-> acc.words]

\* A: lines 51-72, the loop and the return
NormalizeA ==
    /\ pc = "A_shape"
    /\ result' = ResultA(segments, info)
    /\ pc' = "print"
    /\ UNCHANGED <<adapter, argv, imported, fsExists, detectLang, args, stdout, stderr, exitCode,
                   entered, loads, calls, segments, info, audio_len, pipeOut, raised>>

\* B: lines 46-55, getattr(torch, torch_dtype) unless torch_dtype is "auto"
ResolveDeviceB ==
    /\ pc = "B_device"
    /\ IF args.torch_dtype = "auto" \/ args.torch_dtype \in TorchDtypes
       THEN /\ pc' = "B_load"
            /\ UNCHANGED <<stdout, stderr, exitCode, raised, result>>
       ELSE Raise(Exc("AttributeError", <<"module 'torch' has no attribute ", args.torch_dtype>>))
    /\ UNCHANGED <<adapter, argv, imported, fsExists, detectLang, args,
                   entered, loads, calls, segments, info, audio_len, pipeOut>>

\* B: lines 58-66, the model and the processor
LoadModelB ==
    /\ pc = "B_load"
    /\ loads' = loads + 1
    /\ pc' = "B_pipe"
    /\ UNCHANGED <<adapter, argv, imported, fsExists, detectLang, args, stdout, stderr, exitCode,
                   entered, calls, segments, info, audio_len, pipeOut, raised, result>>

\* B: lines 69-86, the pipeline and generate_kwargs
BuildPipelineB ==
    /\ pc = "B_pipe"
    /\ pc' = "B_audio"
    /\ UNCHANGED <<adapter, argv, imported, fsExists, detectLang, args, stdout, stderr, exitCode,
                   entered, loads, calls, segments, info, audio_len, pipeOut, raised, result>>

\* B: audio_data, sample_rate = librosa.load(audio_path, sr=16000)
LoadAudioB ==
    /\ pc = "B_audio"
    /\ \E n \in AudioLenSamples : audio_len' = n
    /\ pc' = "B_run"
    /\ UNCHANGED <<adapter, argv, imported, fsExists, detectLang, args, stdout, stderr, exitCode,
                   entered, loads, calls, segments, info, pipeOut, raised, result>>

\* B: result = pipe(audio_data, generate_kwargs=generate_kwargs)
RunPipeB ==
    /\ pc = "B_run"
    /\ calls' = calls + 1
    /\ \E out \in PipeSamples : pipeOut' = out
    /\ pc' = "B_shape"
    /\ UNCHANGED <<adapter, argv, imported, fsExists, detectLang, args, stdout, stderr, exitCode,
                   entered, loads, audio_len, segments, info, raised, result>>

\* chunks = result.get("chunks", [])
ChunksOf(out) == IF out.hasChunks THEN out.chunks ELSE <<>>

\* detected_language = language if language and language != 'auto' else 'pt'
DetectedLanguageB(a) ==
    IF a.language # NoneStr /\ a.language # "auto" THEN a.language ELSE "pt"

\* LanguageProbabilityB given as a percentage
LanguageProbabilityBPercent == PlaceholderProb * 100

\* "language_probability": 0.95
LanguageProbabilityB == PlaceholderProb

\* duration = len(audio_data) / sample_rate, in hundredths of a second
DurationB(n) == (n * 100) \div SampleRate

\* B: the dict returned, given the value of words after the loop
ResultB(out, a, n, ws) ==
    [text |-> Strip(out.text),
     language |-> DetectedLanguageB(a),
     language_probability |-> LanguageProbabilityB,
     duration |-> DurationB(n),
     words |-> ws,
     chunks |-> ChunksOf(out)]

\* B: every value words can have after lines 99-118
WordsB(out, a) ==
    IF ChunksOf(out) # <<>> /\ a.return_timestamps
    THEN WordsOfChunks(ChunksOf(out))
    ELSE {<<>>}

\* B: lines 94-133, the loop over chunks and the return
ShapeB ==
    /\ pc = "B_shape"
    /\ IF args.return_timestamps /\ SomeUnpackFails(ChunksOf(pipeOut))
       THEN Raise(Exc("ValueError", <<"not enough values to unpack (expected 2, got 1)">>))
       ELSE /\ \E ws \in WordsB(pipeOut, args) :
                 result' = ResultB(pipeOut, args, audio_len, ws)
            /\ pc' = "print"
            /\ UNCHANGED <<stdout, stderr, exitCode, raised>>
    /\ UNCHANGED <<adapter, argv, imported, fsExists, detectLang, args,
                   entered, loads, calls, segments, info, audio_len, pipeOut>>

\* main: print(json.dumps(result, ensure_ascii=False, indent=2)); the script ends
PrintResult ==
    /\ pc = "print"
    /\ PrintAndExit(DumpsResult(result), 0)
    /\ UNCHANGED <<adapter, argv, imported, fsExists, detectLang, args, stderr,
                   entered, loads, calls, segments, info, audio_len, pipeOut, raised, result>>

Next ==
    \/ ImportOk
    \/ ImportFail
    \/ ParseArgs
    \/ CheckAudio
    \/ BackendRaise
    \/ LoadModelA
    \/ TranscribeA
    \/ NormalizeA
    \/ ResolveDeviceB
    \/ LoadModelB
    \/ BuildPipelineB
    \/ LoadAudioB
    \/ RunPipeB
    \/ ShapeB
    \/ PrintResult

Spec == Init /\ [][Next]_vars

----------------------------------------------------------------------------
(* The shaping code on its own: the run stands just before it, with the      *)
(* backend's output drawn from a bounded domain                              *)

MidRun(ad, at) ==
    /\ adapter = ad
    /\ pc = at
    /\ argv = BaseArgv
    /\ imported = TRUE
    /\ fsExists = TRUE
    /\ detectLang = "en"
    /\ args = Namespace(ad, BaseArgv)
    /\ stdout = <<>>
    /\ stderr = <<>>
    /\ exitCode = Running
    /\ entered = TRUE
    /\ loads = 1
    /\ calls = 1
    /\ raised = NoExc
    /\ result = NoResult

TimesOrNone(maxT) == {None} \cup 0..maxT

\* the chunks with timestamps up to maxT and a text of texts; a chunk with
\* both times has start <= end
ChunkDomain(maxT, texts) ==
    { Chunk(k, None, None, t) : k \in {"absent", "null", "empty"}, t \in texts }
    \cup
    { Chunk("pair", st[1], st[2], t) :
        st \in { x \in TimesOrNone(maxT) \X TimesOrNone(maxT) :
                   (x[1] # None /\ x[2] # None) => x[1] <= x[2] },
        t \in texts }

\* the text of k words "a" separated by one space
RECURSIVE WordsText(_)
WordsText(k) ==
    IF k = 0 THEN <<>>
    ELSE IF k = 1 THEN <<"a">>
    ELSE WordsText(k - 1) \o <<" ", "a">>

\* B, one chunk: every timestamp up to MaxTime, every text up to MaxTextLen
InitChunkB ==
    /\ MidRun("B", "B_shape")
    /\ segments = <<>>
    /\ info = NoInfo
    /\ audio_len \in AudioLenSamples
    /\ \E c \in ChunkDomain(MaxTime, SeqsUpTo(Chars, MaxTextLen)) :
         pipeOut = PipeOut(c.text, TRUE, <<c>>)

NextShapeB == ShapeB

SpecChunkB == InitChunkB /\ [][NextShapeB]_vars

\* B, a list of chunks
ListChunkDomain ==
    ChunkDomain(MaxListTime, {WordsText(k) : k \in 0..MaxListWords})

InitWordsB ==
    /\ MidRun("B", "B_shape")
    /\ segments = <<>>
    /\ info = NoInfo
    /\ audio_len = 0
    /\ \E cs \in SeqsUpTo(ListChunkDomain, MaxChunks) :
         pipeOut = PipeOut(<<>>, TRUE, cs)

NextWordsB == ShapeB

SpecWordsB == InitWordsB /\ [][NextWordsB]_vars

\* A, a list of segments
WordDomain == { Word(<<"a">>, 0, 50, 87), Word(<<"a", "a">>, 50, 70, 42) }

SegmentDomain ==
    LET texts == SeqsUpTo(Chars, MaxSegTextLen)
    IN  { Segment(t, FALSE, <<>>) : t \in texts }
        \cup { Segment(t, TRUE, ws) : t \in texts, ws \in SeqsUpTo(WordDomain, MaxSegWords) }

InitNormA ==
    /\ MidRun("A", "A_shape")
    /\ segments \in SeqsUpTo(SegmentDomain, MaxSegs)
    /\ info = [language |-> "en", language_probability |-> 57, duration |-> 250]
    /\ audio_len = 0
    /\ pipeOut = NoPipeOut

NextNormA == NormalizeA

SpecNormA == InitNormA /\ [][NextNormA]_vars

----------------------------------------------------------------------------
(* Properties *)

ResultKeys == {"text", "language", "language_probability", "duration", "words"}

IsJson(entry) == entry.kind = "json"

\* the run wrote exactly one thing to standard output, a JSON document
WroteOneJson == Len(stdout) = 1 /\ IsJson(stdout[1])

Abs(x) == IF x < 0 THEN 0 - x ELSE x

\* C1: when the audio check finds that the --audio path does not exist, the run
\* ends with exit code 1 having printed a JSON object with the key "error", and
\* on a run whose audio path does not exist transcribe_audio is never entered,
\* no model is constructed and no transcription call is made.
C1_MissingAudioFailsFast ==
    /\ ~fsExists => (~entered /\ loads = 0 /\ calls = 0)
    /\ (~fsExists /\ args # NoArgs /\ pc = "exited") =>
          /\ exitCode = 1
          /\ WroteOneJson
          /\ "error" \in DOMAIN stdout[1].doc

C1_Witness ==
    /\ pc = "exited" /\ args # NoArgs /\ ~fsExists
    /\ adapter = "B" /\ exitCode = 1 /\ Len(stdout) = 1

\* C2: an exception raised at any step of transcribe_audio is caught: nothing
\* propagates (no traceback), transcribe_audio returns {"error": <its message>},
\* and the run prints exactly that object and exits with code 0.
C2_BackendExceptionCaught ==
    raised # NoExc =>
        /\ stderr = <<>>
        /\ pc \in {"print", "exited"}
        /\ DOMAIN result = {"error"} /\ result.error = raised.msg
        /\ pc = "exited" =>
              /\ exitCode = 0
              /\ WroteOneJson
              /\ DOMAIN stdout[1].doc = {"error"}
              /\ stdout[1].doc.error = raised.msg

\* the shaping step of B failed after the pipeline had returned
C2_Witness ==
    /\ pc = "exited" /\ exitCode = 0
    /\ raised.cls = "ValueError" /\ pipeOut.hasChunks

IsErrorDoc(d) == "error" \in DOMAIN d /\ DOMAIN d \cap ResultKeys = {}

IsFullDoc(d) ==
    /\ ResultKeys \subseteq DOMAIN d
    /\ "error" \notin DOMAIN d
    /\ DOMAIN d.words = 1..Len(d.words)

\* C3: every JSON document printed, and every dict transcribe_audio returns, is
\* either an error object (key "error", none of the result keys) or a full
\* result (all five result keys, words a sequence, no "error" key), never a mix.
C3_ErrorOrFullResult ==
    /\ \A i \in 1..Len(stdout) :
          IsJson(stdout[i]) => (IsErrorDoc(stdout[i].doc) # IsFullDoc(stdout[i].doc))
    /\ pc = "print" => (IsErrorDoc(result) # IsFullDoc(result))

\* B failed on its second chunk, after the words of the first were computed
C3_Witness ==
    /\ pc = "exited" /\ raised # NoExc
    /\ Len(pipeOut.chunks) = 2 /\ ChunkWords(pipeOut.chunks[1]) # {<<>>}
    /\ WroteOneJson /\ IsErrorDoc(stdout[1].doc)

\* the --audio path is given and does not exist
PathMissing == argv.audio # NoneStr /\ ~fsExists

\* C4 as stated: a run that has ended exited with 0 or 1, with 1 only when
\* the import failed or the audio path does not exist, and has printed a JSON
\* document, whatever the command line.
C4_ExitCodesAnyCommandLine ==
    pc = "exited" =>
        /\ exitCode \in {0, 1}
        /\ exitCode = 1 => (~imported \/ PathMissing)
        /\ \E i \in 1..Len(stdout) : IsJson(stdout[i])

\* C4 amended: a run whose import fails exits with 1 having printed one JSON
\* document; a run whose command line argparse accepts exits with 1 when the
\* audio path does not exist and with 0 otherwise, having printed one JSON
\* document; a command line argparse rejects ends with exit code 2 and nothing
\* on standard output; -h ends with exit code 0 and the help text.
C4_ExitCodesByParseOutcome ==
    pc = "exited" =>
        IF ~imported
        THEN exitCode = 1 /\ WroteOneJson
        ELSE LET outcome == ParseOutcome(adapter, argv)
             IN  /\ outcome = "ok" =>
                       /\ WroteOneJson
                       /\ exitCode = IF fsExists THEN 0 ELSE 1
                 /\ outcome = "error" => (exitCode = 2 /\ stdout = <<>>)
                 /\ outcome = "help" =>
                       (exitCode = 0 /\ Len(stdout) = 1 /\ ~IsJson(stdout[1]))

\* a caught backend error: exit code 0 with the error printed
C4_Witness ==
    /\ pc = "exited" /\ imported /\ ParseOutcome(adapter, argv) = "ok" /\ fsExists
    /\ raised # NoExc /\ exitCode = 0 /\ WroteOneJson

\* C5: in every full result printed, language_probability is within [0, 1]
\* (0..100 hundredths): the value the model reported for A, 0.95 for B.
C5_LanguageProbability ==
    \A i \in 1..Len(stdout) :
        (IsJson(stdout[i]) /\ "language_probability" \in DOMAIN stdout[i].doc) =>
            LET lp == stdout[i].doc.language_probability
            IN  /\ 0 <= lp /\ lp <= 100
                /\ adapter = "A" => lp = info.language_probability
                /\ adapter = "B" => lp = 95

C5_Witness ==
    /\ pc = "exited" /\ adapter = "B" /\ WroteOneJson
    /\ "language_probability" \in DOMAIN stdout[1].doc
    /\ pipeOut.hasChunks

\* a timestamp (start, end) with both present
FullyTimed(c) == c.tsKind = "pair" /\ c.start # None /\ c.end # None

\* the chunk of a single-chunk run, and its words in text order
TheChunk == pipeOut.chunks[1]
TheChunkWords == Split(TheChunk.text)

\* the chunk contributes one entry per word, in text order, each 0.95
C6_Entries ==
    /\ Len(result.words) = Len(TheChunkWords)
    /\ \A i \in 1..Len(TheChunkWords) :
          /\ result.words[i].word = TheChunkWords[i]
          /\ result.words[i].probability = 95

\* the first entry starts at start, the last ends at end
C6_Ends ==
    /\ result.words[1].start = TheChunk.start
    /\ result.words[Len(result.words)].end = TheChunk.end

\* every entry lasts (end - start) / k, each ends where the next starts
C6_Exact ==
    LET k == Len(TheChunkWords)
    IN  /\ \A i \in 1..k :
              k * (result.words[i].end - result.words[i].start)
                 = TheChunk.end - TheChunk.start
        /\ \A i \in 1..(k - 1) : result.words[i].end = result.words[i + 1].start

\* the same up to the rounding of the output: within 0.01
C6_Rounded ==
    LET k == Len(TheChunkWords)
    IN  /\ \A i \in 1..k :
              Abs(k * (result.words[i].end - result.words[i].start)
                    - (TheChunk.end - TheChunk.start)) <= k
        /\ \A i \in 1..(k - 1) :
              Abs(result.words[i].end - result.words[i + 1].start) <= 1

C6_Case ==
    /\ pc = "print" /\ raised = NoExc
    /\ FullyTimed(TheChunk) /\ Len(TheChunkWords) >= 1

\* C6 as stated: for a chunk with both times and k >= 1 words, k entries in
\* text order with probability 0.95, every entry of duration (end - start) / k
\* in the output, the first starting at start, each ending where the next
\* starts, the last ending at end.
C6_EvenSplitInOutput == C6_Case => (C6_Entries /\ C6_Ends /\ C6_Exact)

\* C6 amended: k entries in text order with probability 0.95, the first
\* starting at start and the last ending at end; the output values are rounded
\* to two decimals, so every entry's duration is within 0.01 of
\* (end - start) / k and each entry's end is within 0.01 of the next entry's
\* start, and they are exact when (end - start) is a multiple of k hundredths.
C6_EvenSplitUpToRounding ==
    C6_Case =>
        /\ C6_Entries
        /\ C6_Ends
        /\ C6_Rounded
        /\ (TheChunk.end - TheChunk.start) % Len(TheChunkWords) = 0 => C6_Exact

\* three words over 0.02 s: the durations cannot all be equal in the output
C6_Witness ==
    /\ C6_Case
    /\ Len(result.words) = 3
    /\ TheChunk.end - TheChunk.start = 2

\* the chunk lacks a timestamp: no key, null or empty, or a null start or end
LacksTimestamp(c) ==
    c.tsKind \in {"absent", "null", "empty"} \/ c.start = None \/ c.end = None

HasFullTimestamp(c) == ~LacksTimestamp(c)

RECURSIVE CountWords(_)
CountWords(chunks) ==
    IF chunks = <<>> THEN 0
    ELSE Len(Split(Head(chunks).text)) + CountWords(Tail(chunks))

\* C7: the chunks that lack a timestamp contribute nothing: words holds one
\* entry per word of the other chunks and is a value the loop gives on the
\* list with the chunks lacking a timestamp removed.
C7_UntimedChunksDropped ==
    (pc = "print" /\ raised = NoExc) =>
        LET kept == SelectSeq(pipeOut.chunks, HasFullTimestamp)
        IN  /\ Len(result.words) = CountWords(kept)
            /\ result.words \in WordsOfChunks(kept)

\* an untimed chunk with a word, followed by a timed one
C7_Witness ==
    /\ pc = "print" /\ raised = NoExc
    /\ Len(pipeOut.chunks) = 2
    /\ LacksTimestamp(pipeOut.chunks[1]) /\ pipeOut.chunks[1].text # <<>>
    /\ pipeOut.chunks[1].tsKind = "pair"
    /\ HasFullTimestamp(pipeOut.chunks[2])
    /\ Len(result.words) = 1

\* a string of the document holds a non-ASCII character
HasNonAscii(d) ==
    "error" \in DOMAIN d /\ \E j \in DOMAIN d.error : d.error[j] \in NonAsciiStrings

\* C8 as stated: a run that writes JSON writes exactly one document,
\* pretty-printed (indented) and with no non-ASCII character escaped.
C8_OnePrettyUnescapedDocument ==
    (pc = "exited" /\ \E i \in 1..Len(stdout) : IsJson(stdout[i])) =>
        /\ Len(stdout) = 1
        /\ stdout[1].indent # None
        /\ ~(stdout[1].ensure_ascii /\ HasNonAscii(stdout[1].doc))

\* C9 as stated: the language of a full result is the requested one when
\* --language is given and is not 'auto', and the detected one otherwise.
C9_RequestedOrDetectedLanguage ==
    \A i \in 1..Len(stdout) :
        (IsJson(stdout[i]) /\ "language" \in DOMAIN stdout[i].doc) =>
            stdout[i].doc.language =
                IF args.language \notin {NoneStr, "auto"} THEN args.language ELSE detectLang

\* the segment texts joined with one space between consecutive segments
RECURSIVE JoinTexts(_)
JoinTexts(segs) ==
    IF segs = <<>> THEN <<>>
    ELSE IF Len(segs) = 1 THEN segs[1].text
    ELSE segs[1].text \o <<" ">> \o JoinTexts(Tail(segs))

\* the reported words of the segments, in order
RECURSIVE ReportedWords(_)
ReportedWords(segs) ==
    IF segs = <<>> THEN <<>>
    ELSE (IF Head(segs).hasWords THEN Head(segs).words ELSE <<>>)
         \o ReportedWords(Tail(segs))

====
